---- MODULE Spec2Model ----
(***************************************************************************)
(* A model of the FAT-style volume of package disk (src/disk/disk.go):     *)
(* the Disk structure, the FAT region and the root-directory block of its  *)
(* backing file, and the operations New, Mount, Create, Open and Close.    *)
(* The backing file itself (its length and stored superblock), the mode of *)
(* the descriptor the Disk holds and the nil-ness of its open map are      *)
(* state too, and so is the data region that File.Read and File.Write move *)
(* bytes through.                                                          *)
(*                                                                         *)
(* The FAT region is held entry by entry: entry k is the little-endian u16  *)
(* stored at bytes 2k, 2k+1 of the region of fatBlockCt blocks that starts *)
(* at byte BlockSize of the backing file.  The root-directory block is     *)
(* held slot by slot: slot s is the 32-byte entry at bytes 32s .. 32s+31   *)
(* of block rootDirInd, split into its filename (16 bytes), size (u32) and *)
(* first block (u16) fields.  Both are kept as the finite maps of their    *)
(* NON-ZERO entries: an entry of the region that the map does not hold is  *)
(* all zero bytes, as initFS wrote it.  The loops of the code run over     *)
(* BYTE offsets, and so do the operators below.                            *)
(***************************************************************************)
EXTENDS Integers, Sequences, FiniteSets, TLC

\* ------------------------------------------------------------ constants
BlockSize == 4096
FatEoc == 65535
FatEntrySize == 2
FatEntryUnused == 0
RootEntrySize == 32
RootEntryFilenameSize == 16
SbSig == "NEWFATFS"

\* uint16(x) of Go: the low 16 bits
U16Mod == 65536
Uint16(x) == x % U16Mod

\* ------------------------------------------------------------ bounds
\* data block counts New is called with: 0 .. MaxDataBlocks
MaxDataBlocks == 2
\* Create calls made on one volume in the sequential specification
MaxCreates == 3
\* Create calls beyond the directory's capacity in the filling specification
FillExtra == 1
\* goroutines calling Create concurrently
MaxProcs == 2
\* the data block count of TestDisk_Mount
TestBlockCt == 64
\* a data block count whose blockCt, 2 + 32 + 65502, does not fit in 16 bits
BigDataBlocks == 65502
\* Create calls made in the mounting specification
MaxMountCreates == 1
\* data block counts, Create calls and payloads of the read-write
\* specification: payloads of PayloadTail bytes and of PayloadBlocks blocks
\* and PayloadTail bytes
MaxRWBlocks == 5
MaxRWCreates == 2
PayloadTail == 17
PayloadBlocks == 3

\* ------------------------------------------------------------ file names
\* A file name is a Go string: a sequence of bytes.
NameOfLen(n, b) == [k \in 1..n |-> b]
NameEmpty == <<>>
NameA == <<97>>
Name16 == NameOfLen(RootEntryFilenameSize, 99)
Name17 == Name16 \o <<100>>
FileNames == {NameEmpty, NameA, Name16, Name17}

\* ------------------------------------------------------------ state
VARIABLES
    sig, blockCt, rootDirInd, dataStartInd, dataBlockCt, fatBlockCt, \* Disk
    open,        \* Disk.open: the map of open file names
    fat,         \* the FAT region of the backing file: its non-zero entries
    root,        \* the root-directory block: its non-zero slots
    ret,         \* what the last call returned
    handles,     \* the File each name's last successful Create returned
    nCreate,     \* Create calls made so far
    procs,       \* the goroutines of the concurrent specification
    crashed,     \* the runtime has stopped the process (panic, fatal error)
    fd,          \* Disk.fd: nil, or how the backing file was opened
    openNil,     \* Disk.open is the nil map (it was never made)
    store,       \* the backing file at the path: its length and superblock
    data,        \* the data region of the backing file: its written blocks
    written      \* the payload last written to each name

layout == <<sig, blockCt, rootDirInd, dataStartInd, dataBlockCt, fatBlockCt>>
vars == <<sig, blockCt, rootDirInd, dataStartInd, dataBlockCt, fatBlockCt,
          open, fat, root, ret, handles, nCreate, procs, crashed,
          fd, openNil, store, data, written>>

\* ------------------------------------------------------------ values
\* File{}: the zero value of the File structure
NoFile == [name |-> <<>>, desc |-> 0, offset |-> 0, size |-> 0]
\* a zeroed 32-byte directory entry
ZeroName == NameOfLen(RootEntryFilenameSize, 0)
ZeroEntry == [name |-> ZeroName, size |-> 0, first |-> 0]

\* numFatBlks computed with an integer division, which rounds down
NumFatBlksFloor(dataBlocks) ==
    (FatEntrySize * dataBlocks) \div BlockSize

\* int(math.Ceil((FatEntrySize * float64(dataBlocks)) / BlockSize))
NumFatBlks(dataBlocks) ==
    (FatEntrySize * dataBlocks + BlockSize - 1) \div BlockSize

\* the number of u16 entries of a FAT buffer of fatBlocks blocks
NumFatEntries(fatBlocks) == (fatBlocks * BlockSize) \div FatEntrySize
\* the number of 32-byte slots of the root-directory block
NumRootEntries == BlockSize \div RootEntrySize

\* ------------------------------------------------------------ New
\* Disk.fd: the nil *os.File of Disk{}, the read-write file of os.Create,
\* the read-only file of os.Open
NilFd == "nil"
RdWr == "O_RDWR"
RdOnly == "O_RDONLY"

\* byte(x) of Go: the low 8 bits
U8Mod == 256
Uint8(x) == x % U8Mod

\* Disk{}: the zero value of the Disk structure
ZeroDisk ==
    [sig |-> "", blockCt |-> 0, rootDirInd |-> 0, dataStartInd |-> 0,
     dataBlockCt |-> 0, fatBlockCt |-> 0]

\* numTotalBlks of initFS
NumTotalBlks(dataBlocks) == 2 + NumFatBlks(dataBlocks) + dataBlocks

\* initSuperblock, first half: the fields it stores in the Disk structure
\* of a volume of dataBlocks data blocks.
initSuperblock(dataBlocks) ==
    LET numFatBlks == NumFatBlks(dataBlocks)
        numBlks == 2 + numFatBlks + dataBlocks
    IN  [sig |-> SbSig,
         blockCt |-> numBlks,
         rootDirInd |-> 1 + numFatBlks,
         dataStartInd |-> 2 + numFatBlks,
         dataBlockCt |-> dataBlocks,
         fatBlockCt |-> numFatBlks]

\* initSuperblock, second half: the fields of block 0 as it writes them from
\* the Disk structure d.  The signature is 8 bytes, blockCt, rootDirInd,
\* dataStartInd and dataBlockCt are little-endian u16, fatBlockCt is one
\* byte; the rest of the block is zero.
SuperblockOf(d) ==
    [sig |-> d.sig,
     blockCt |-> Uint16(d.blockCt),
     rootDirInd |-> Uint16(d.rootDirInd),
     dataStartInd |-> Uint16(d.dataStartInd),
     dataBlockCt |-> Uint16(d.dataBlockCt),
     fatBlockCt |-> Uint8(d.fatBlockCt)]

\* readSuperblock: the Disk fields read from the superblock fields sb
readSuperblock(sb) ==
    [sig |-> sb.sig,
     blockCt |-> sb.blockCt,
     rootDirInd |-> sb.rootDirInd,
     dataStartInd |-> sb.dataStartInd,
     dataBlockCt |-> sb.dataBlockCt,
     fatBlockCt |-> sb.fatBlockCt]

\* The backing file: whether it exists, its length in bytes, and the
\* superblock fields of its block 0.  Its FAT region and root-directory
\* block are the variables fat and root.
NoStore == [exists |-> FALSE, len |-> 0, sb |-> SuperblockOf(ZeroDisk)]
\* the backing file after os.Create, initFS and initSuperblock
NewStore(dataBlocks) ==
    [exists |-> TRUE,
     len |-> NumTotalBlks(dataBlocks) * BlockSize,
     sb |-> SuperblockOf(initSuperblock(dataBlocks))]

\* createDisk, initFS and initSuperblock: the volume New(path, dataBlocks)
\* returns for a path that is not empty.  initFS writes
\* numTotalBlks*BlockSize zero bytes, so the FAT region and the
\* root-directory block start all zero.
New(dataBlocks) ==
    LET d == initSuperblock(dataBlocks)
    IN  /\ sig = d.sig
        /\ blockCt = d.blockCt
        /\ rootDirInd = d.rootDirInd
        /\ dataStartInd = d.dataStartInd
        /\ dataBlockCt = d.dataBlockCt
        /\ fatBlockCt = d.fatBlockCt
        /\ open = <<>>
        /\ fat = <<>>
        /\ root = <<>>
        /\ fd = RdWr
        /\ openNil = FALSE
        /\ store = NewStore(dataBlocks)
        /\ data = <<>>
        /\ written = <<>>

\* ------------------------------------------------------------ the FAT
\* binary.LittleEndian.Uint16(fatBuff[i : i+FatEntrySize])
FatVal(fatBuff, i) ==
    IF (i \div FatEntrySize) \in DOMAIN fatBuff
    THEN fatBuff[i \div FatEntrySize] ELSE 0

\* binary.LittleEndian.PutUint16(fatBuff[i : i+FatEntrySize], v)
PutFatVal(fatBuff, i, v) ==
    LET k == i \div FatEntrySize
    IN  IF v = 0
        THEN [j \in (DOMAIN fatBuff) \ {k} |-> fatBuff[j]]
        ELSE [j \in (DOMAIN fatBuff) \cup {k} |-> IF j = k THEN v ELSE fatBuff[j]]

\* for i := 0; i < len(fatBuff); i += FatEntrySize: the byte offset i of
\* the first entry whose value is FatEntryUnused, at which the loop returns
\* from its body; -1 when the loop runs to its end.  len is len(fatBuff).
FirstUnused(fatBuff, len) ==
    LET n == (len + FatEntrySize - 1) \div FatEntrySize
    IN  IF \E k \in 0..(n - 1) : FatVal(fatBuff, k * FatEntrySize) = FatEntryUnused
        THEN FatEntrySize *
             (CHOOSE k \in 0..(n - 1) :
                 /\ FatVal(fatBuff, k * FatEntrySize) = FatEntryUnused
                 /\ \A j \in 0..(k - 1) :
                        FatVal(fatBuff, j * FatEntrySize) # FatEntryUnused)
        ELSE -1

\* initFatChain on a volume whose FAT region holds fatBuff and whose
\* fatBlockCt is fatBlocks: the value returned, the error, and the FAT
\* region after the call.
initFatChain(fatBuff, fatBlocks) ==
    LET i == FirstUnused(fatBuff, fatBlocks * BlockSize)
    IN  IF i >= 0
        THEN [ind |-> i, err |-> "nil",
              fat |-> PutFatVal(fatBuff, i, FatEoc)]
        ELSE [ind |-> 0, err |-> "FullDiskError", fat |-> fatBuff]

\* ------------------------------------------------------------ the root directory
\* rootBuff[i : i+RootEntrySize]
RootEntryAt(rootBuff, i) ==
    IF (i \div RootEntrySize) \in DOMAIN rootBuff
    THEN rootBuff[i \div RootEntrySize] ELSE ZeroEntry

\* rootBuff with the entry at byte offset i set to entry
PutRootEntry(rootBuff, i, entry) ==
    LET s == i \div RootEntrySize
    IN  IF entry = ZeroEntry
        THEN [t \in (DOMAIN rootBuff) \ {s} |-> rootBuff[t]]
        ELSE [t \in (DOMAIN rootBuff) \cup {s} |->
                IF t = s THEN entry ELSE rootBuff[t]]

\* copy(name, filename): the first min(len(name), len(filename)) bytes of
\* name are overwritten, the others are kept.
CopyName(name, filename) ==
    [k \in 1..Len(name) |-> IF k <= Len(filename) THEN filename[k] ELSE name[k]]

\* the entry at byte offset i is empty: its name starts with a null byte
EmptyAt(rootBuff, i) == RootEntryAt(rootBuff, i).name[1] = 0
\* strings.Compare(builder.String(), filename) == 0 for the entry at i: its
\* 16 name bytes, padding included, are the bytes of filename
ExistsAt(rootBuff, filename, i) == RootEntryAt(rootBuff, i).name = filename

\* for i := 0; i < len(rootBuff); i += RootEntrySize in initRootEntry: the
\* byte offset i of the first entry that is empty or whose name equals
\* filename, at which the loop returns from its body; -1 when the loop runs
\* to its end.  len is len(rootBuff).
FirstEmptyOrEqual(rootBuff, filename, len) ==
    LET n == (len + RootEntrySize - 1) \div RootEntrySize
        Return(i) == EmptyAt(rootBuff, i) \/ ExistsAt(rootBuff, filename, i)
    IN  IF \E k \in 0..(n - 1) : Return(k * RootEntrySize)
        THEN RootEntrySize *
             (CHOOSE k \in 0..(n - 1) :
                 /\ Return(k * RootEntrySize)
                 /\ \A j \in 0..(k - 1) : ~Return(j * RootEntrySize))
        ELSE -1

\* what initRootEntry does once its loop has returned at i, or ended (i = -1)
RootEntryResult(rootBuff, filename, startBlock, i) ==
    IF i < 0
    THEN [ind |-> 0, err |-> "RootDirFullError", root |-> rootBuff]
    ELSE IF EmptyAt(rootBuff, i)
    THEN [ind |-> i, err |-> "nil",
          root |-> PutRootEntry(rootBuff, i,
                      [RootEntryAt(rootBuff, i) EXCEPT
                          !.name = CopyName(@, filename),
                          !.first = Uint16(startBlock)])]
    ELSE [ind |-> 0, err |-> "FileAlreadyExistsError", root |-> rootBuff]

\* initRootEntry with a loop that stops one entry short of the block's end
initRootEntryShort(rootBuff, filename, startBlock) ==
    RootEntryResult(rootBuff, filename, startBlock,
        FirstEmptyOrEqual(rootBuff, filename, BlockSize - RootEntrySize))

\* initRootEntry on a volume whose root-directory block holds rootBuff: the
\* value returned, the error, and the block after the call.
initRootEntry(rootBuff, filename, startBlock) ==
    RootEntryResult(rootBuff, filename, startBlock,
        FirstEmptyOrEqual(rootBuff, filename, BlockSize))

\* strings.Trim(s, "\x00"): s without its leading and trailing null bytes
Trim(s) ==
    IF s = ZeroName \/ \A k \in 1..Len(s) : s[k] = 0 THEN <<>>
    ELSE LET lo == CHOOSE k \in 1..Len(s) :
                     s[k] # 0 /\ \A j \in 1..(k - 1) : s[j] = 0
             hi == CHOOSE k \in 1..Len(s) :
                     s[k] # 0 /\ \A j \in (k + 1)..Len(s) : s[j] = 0
         IN  SubSeq(s, lo, hi)

\* for i := 0; i < len(rootBuff); i += RootEntrySize in loadRootEntry: the
\* byte offset i of the first entry whose trimmed name equals name, at
\* which the loop returns from its body; -1 when the loop runs to its end.
FirstMatch(rootBuff, name, len) ==
    LET n == (len + RootEntrySize - 1) \div RootEntrySize
        Match(i) == Trim(RootEntryAt(rootBuff, i).name) = name
    IN  IF \E k \in 0..(n - 1) : Match(k * RootEntrySize)
        THEN RootEntrySize *
             (CHOOSE k \in 0..(n - 1) :
                 /\ Match(k * RootEntrySize)
                 /\ \A j \in 0..(k - 1) : ~Match(j * RootEntrySize))
        ELSE -1

\* loadRootEntry that returns nil where the loop ends without a match
loadRootEntryNoError(rootBuff, file) ==
    LET i == FirstMatch(rootBuff, file.name, BlockSize)
    IN  IF Len(file.name) = 0
        THEN [err |-> "CustomError", file |-> file]
        ELSE IF i < 0
        THEN [err |-> "nil", file |-> file]
        ELSE [err |-> "nil",
              file |-> [file EXCEPT !.size = RootEntryAt(rootBuff, i).size,
                                    !.desc = RootEntryAt(rootBuff, i).first]]

\* loadRootEntry on a volume whose root-directory block holds rootBuff: the
\* error, and the File structure after the call.
loadRootEntry(rootBuff, file) ==
    LET i == FirstMatch(rootBuff, file.name, BlockSize)
    IN  IF Len(file.name) = 0
        THEN [err |-> "CustomError", file |-> file]
        ELSE IF i < 0
        THEN [err |-> "FileNotFoundError", file |-> file]
        ELSE [err |-> "nil",
              file |-> [file EXCEPT !.size = RootEntryAt(rootBuff, i).size,
                                    !.desc = RootEntryAt(rootBuff, i).first]]

\* ------------------------------------------------------------ the open map
checkIsOpen(openMap, filename) ==
    filename \in DOMAIN openMap /\ openMap[filename]

\* d.open[filename] = true
SetOpen(openMap, filename) ==
    [f \in (DOMAIN openMap) \cup {filename} |->
        IF f = filename THEN TRUE ELSE openMap[f]]

\* File.Close that takes the closing of a name not registered open as done
CloseFileIdempotent(openMap, name) ==
    IF Len(name) = 0
    THEN [err |-> "MemberUndefinedError", open |-> openMap]
    ELSE [err |-> "nil", open |-> [f \in (DOMAIN openMap) \ {name} |-> openMap[f]]]

\* File.Close: MemberUndefined for a handle without a name, FileNotOpen for
\* a name that is not registered open; otherwise the name is unregistered.
CloseFile(openMap, name) ==
    IF Len(name) = 0
    THEN [err |-> "MemberUndefinedError", open |-> openMap]
    ELSE IF ~checkIsOpen(openMap, name)
    THEN [err |-> "FileNotOpenError", open |-> openMap]
    ELSE [err |-> "nil", open |-> [f \in (DOMAIN openMap) \ {name} |-> openMap[f]]]

\* ------------------------------------------------------------ Create, Open
\* Disk.Create(filename): what it returns and what it leaves on the volume.
DiskCreate(fatBuff, rootBuff, openMap, fatBlocks, filename) ==
    LET a == initFatChain(fatBuff, fatBlocks)
        e == initRootEntry(rootBuff, filename, a.ind)
    IN  IF a.err # "nil"
        THEN [err |-> a.err, file |-> NoFile, blockInd |-> -1,
              fat |-> fatBuff, root |-> rootBuff, open |-> openMap]
        ELSE IF e.err # "nil"
        THEN [err |-> e.err, file |-> NoFile, blockInd |-> a.ind,
              fat |-> a.fat, root |-> rootBuff, open |-> openMap]
        ELSE [err |-> "nil",
              file |-> [name |-> filename, desc |-> e.ind, offset |-> 0, size |-> 0],
              blockInd |-> a.ind,
              fat |-> a.fat, root |-> e.root, open |-> SetOpen(openMap, filename)]

\* Disk.Open without its checkIsOpen guard
DiskOpenNoCheck(rootBuff, openMap, filename) ==
    LET l == loadRootEntry(rootBuff,
               [name |-> filename, desc |-> 0, offset |-> 0, size |-> 0])
    IN  IF l.err # "nil"
        THEN [err |-> l.err, file |-> NoFile, open |-> openMap]
        ELSE [err |-> "nil", file |-> l.file, open |-> SetOpen(openMap, filename)]

\* Disk.Open(filename)
DiskOpen(rootBuff, openMap, filename) ==
    IF checkIsOpen(openMap, filename)
    THEN [err |-> "FileAlreadyInUseError", file |-> NoFile, open |-> openMap]
    ELSE LET l == loadRootEntry(rootBuff,
                    [name |-> filename, desc |-> 0, offset |-> 0, size |-> 0])
         IN  IF l.err # "nil"
             THEN [err |-> l.err, file |-> NoFile, open |-> openMap]
             ELSE [err |-> "nil", file |-> l.file, open |-> SetOpen(openMap, filename)]

\* ------------------------------------------------------------ the sequential specification
NoRet == [op |-> "New", filename |-> <<>>, err |-> "nil", file |-> NoFile,
          blockInd |-> -1]
Idle == <<>>

Init ==
    /\ \E n \in 0..MaxDataBlocks : New(n)
    /\ ret = NoRet
    /\ handles = <<>>
    /\ nCreate = 0
    /\ procs = Idle
    /\ crashed = FALSE

\* one call d.Create(filename).  The errors of WriteAt are dropped, so on a
\* read-only fd the two writes change nothing and the call goes on; the
\* assignment d.open[filename] = true panics when d.open is the nil map.
CreateCall(filename) ==
    /\ LET r == DiskCreate(fat, root, open, fatBlockCt, filename)
           panics == openNil /\ r.err = "nil"
       IN  /\ fat' = IF fd = RdWr THEN r.fat ELSE fat
           /\ root' = IF fd = RdWr THEN r.root ELSE root
           /\ open' = IF panics THEN open ELSE r.open
           /\ ret' = [op |-> "Create", filename |-> filename,
                      err |-> IF panics THEN "panic" ELSE r.err,
                      file |-> IF panics THEN NoFile ELSE r.file,
                      blockInd |-> r.blockInd]
           /\ handles' = IF r.err = "nil" /\ ~panics
                         THEN [f \in (DOMAIN handles) \cup {filename} |->
                                 IF f = filename THEN r.file ELSE handles[f]]
                         ELSE handles
           /\ crashed' = (crashed \/ panics)
    /\ nCreate' = nCreate + 1
    /\ UNCHANGED <<layout, fd, openNil, store, data, written, procs>>

Create(filename) ==
    /\ nCreate < MaxCreates
    /\ CreateCall(filename)

\* Disk.Open that creates the file it does not find, as an open with
\* O_CREATE does
OpenCreating(filename) ==
    /\ LET r == DiskOpen(root, open, filename)
           c == DiskCreate(fat, root, open, fatBlockCt, filename)
           miss == r.err = "FileNotFoundError"
           q == IF miss THEN c ELSE r
           panics == openNil /\ q.err = "nil"
       IN  /\ fat' = IF miss /\ fd = RdWr THEN c.fat ELSE fat
           /\ root' = IF miss /\ fd = RdWr THEN c.root ELSE root
           /\ open' = IF panics THEN open ELSE q.open
           /\ ret' = [op |-> "Open", filename |-> filename,
                      err |-> IF panics THEN "panic" ELSE q.err,
                      file |-> IF panics THEN NoFile ELSE q.file,
                      blockInd |-> -1]
           /\ crashed' = (crashed \/ panics)
    /\ UNCHANGED <<layout, fd, openNil, store, data, written, handles, nCreate, procs>>

\* one call d.Open(filename); the assignment d.open[filename] = true panics
\* when d.open is the nil map.
Open(filename) ==
    /\ LET r == DiskOpen(root, open, filename)
           panics == openNil /\ r.err = "nil"
       IN  /\ open' = IF panics THEN open ELSE r.open
           /\ ret' = [op |-> "Open", filename |-> filename,
                      err |-> IF panics THEN "panic" ELSE r.err,
                      file |-> IF panics THEN NoFile ELSE r.file,
                      blockInd |-> -1]
           /\ crashed' = (crashed \/ panics)
    /\ UNCHANGED <<layout, fd, openNil, store, data, written, fat, root, handles, nCreate, procs>>

\* f.Close() on a handle whose name is filename
Close(filename) ==
    /\ LET r == CloseFile(open, filename)
       IN  /\ open' = r.open
           /\ ret' = [op |-> "Close", filename |-> filename, err |-> r.err,
                      file |-> NoFile, blockInd |-> -1]
    /\ UNCHANGED <<layout, fd, openNil, store, data, written, fat, root, handles, nCreate, procs, crashed>>

Next ==
    \/ \E f \in FileNames : Create(f)
    \/ \E f \in FileNames : Open(f)
    \/ \E f \in FileNames : Close(f)

Spec == Init /\ [][Next]_vars

\* ------------------------------------------------------------ the filling specification
\* One caller creates files of pairwise distinct valid names, one after the
\* other, on a volume with more data blocks than the root directory has
\* slots.  FillName(k) is the name of the k-th Create: 1 + (k mod 16) bytes
\* of value 1 + (k div 16).
FillName(k) ==
    NameOfLen(1 + (k % RootEntryFilenameSize), 1 + (k \div RootEntryFilenameSize))

InitFill ==
    /\ \E n \in {NumRootEntries + 1, NumRootEntries + 2} : New(n)
    /\ ret = NoRet
    /\ handles = <<>>
    /\ nCreate = 0
    /\ procs = Idle
    /\ crashed = FALSE

FillCreate ==
    /\ nCreate < NumRootEntries + FillExtra
    /\ CreateCall(FillName(nCreate + 1))

NextFill == FillCreate

SpecFill == InitFill /\ [][NextFill]_vars

\* ------------------------------------------------------------ the concurrent specification
\* MaxProcs goroutines call d.Create on one volume, each with a valid name
\* of its own.  A goroutine's steps are the system calls and the map write
\* of Create: ReadAt of the FAT region, the scan of its buffer with the
\* WriteAt of the whole buffer, the same pair on the root-directory block,
\* and d.open[filename] = true.  The Disk structure holds no lock.
Procs == 1..MaxProcs
ProcName(p) == NameOfLen(p, 100 + p)

InitConc ==
    /\ \E n \in 0..MaxDataBlocks : New(n)
    /\ ret = NoRet
    /\ handles = <<>>
    /\ nCreate = 0
    /\ procs = [p \in Procs |->
                 [pc |-> "readFat", filename |-> ProcName(p), err |-> "nil",
                  fatBuff |-> <<>>, rootBuff |-> <<>>,
                  blockInd |-> -1, rootInd |-> -1]]
    /\ crashed = FALSE

\* initFatChain: d.fd.ReadAt(fatBuff, offset)
ReadFat(p) ==
    /\ ~crashed /\ procs[p].pc = "readFat"
    /\ procs' = [procs EXCEPT ![p].fatBuff = fat, ![p].pc = "writeFat"]
    /\ UNCHANGED <<layout, fd, openNil, store, data, written, open, fat, root, ret, handles, nCreate, crashed>>

\* initFatChain: the loop over fatBuff and d.fd.WriteAt(fatBuff, offset)
WriteFat(p) ==
    /\ ~crashed /\ procs[p].pc = "writeFat"
    /\ LET a == initFatChain(procs[p].fatBuff, fatBlockCt)
       IN  IF a.err # "nil"
           THEN /\ procs' = [procs EXCEPT ![p].err = a.err, ![p].pc = "done"]
                /\ fat' = fat
           ELSE /\ procs' = [procs EXCEPT ![p].fatBuff = a.fat,
                                          ![p].blockInd = a.ind,
                                          ![p].pc = "readRoot"]
                /\ fat' = a.fat
    /\ UNCHANGED <<layout, fd, openNil, store, data, written, open, root, ret, handles, nCreate, crashed>>

\* initRootEntry: d.fd.ReadAt(rootBuff, offset)
ReadRoot(p) ==
    /\ ~crashed /\ procs[p].pc = "readRoot"
    /\ procs' = [procs EXCEPT ![p].rootBuff = root, ![p].pc = "writeRoot"]
    /\ UNCHANGED <<layout, fd, openNil, store, data, written, open, fat, root, ret, handles, nCreate, crashed>>

\* initRootEntry: the loop over rootBuff and d.fd.WriteAt(rootBuff, offset)
WriteRoot(p) ==
    /\ ~crashed /\ procs[p].pc = "writeRoot"
    /\ LET e == initRootEntry(procs[p].rootBuff, procs[p].filename,
                              procs[p].blockInd)
       IN  IF e.err # "nil"
           THEN /\ procs' = [procs EXCEPT ![p].err = e.err, ![p].pc = "done"]
                /\ root' = root
           ELSE /\ procs' = [procs EXCEPT ![p].rootBuff = e.root,
                                          ![p].rootInd = e.ind,
                                          ![p].pc = "setOpen"]
                /\ root' = e.root
    /\ UNCHANGED <<layout, fd, openNil, store, data, written, open, fat, ret, handles, nCreate, crashed>>

\* Create: d.open[filename] = true
Register(p) ==
    /\ ~crashed /\ procs[p].pc = "setOpen"
    /\ open' = SetOpen(open, procs[p].filename)
    /\ procs' = [procs EXCEPT ![p].pc = "done"]
    /\ UNCHANGED <<layout, fd, openNil, store, data, written, fat, root, ret, handles, nCreate, crashed>>

\* Two goroutines write the map d.open at the same time: a data race, which
\* the Go runtime may end with the fatal error "concurrent map writes".
MapRace ==
    /\ ~crashed
    /\ \E p, q \in Procs :
          p # q /\ procs[p].pc = "setOpen" /\ procs[q].pc = "setOpen"
    /\ crashed' = TRUE
    /\ UNCHANGED <<layout, fd, openNil, store, data, written, open, fat, root, ret, handles, nCreate, procs>>

NextConc ==
    \/ \E p \in Procs : ReadFat(p)
    \/ \E p \in Procs : WriteFat(p)
    \/ \E p \in Procs : ReadRoot(p)
    \/ \E p \in Procs : WriteRoot(p)
    \/ \E p \in Procs : Register(p)
    \/ MapRace

SpecConc == InitConc /\ [][NextConc]_vars

\* ------------------------------------------------------------ the mounting specification
\* One caller holds one Disk value d and one path to a backing file.  It
\* calls New and Mount, with the path or with the empty path, and assigns
\* what they return to d; on a d whose fd is not nil it calls Create and
\* Open.  Before the first call the backing file does not exist, or is a
\* file that New did not make: an empty file, or one block that starts
\* with the eight bytes of ForeignName and is zero after them.
TestPath == <<116, 46, 100>>
Paths == {NameEmpty, TestPath}
MountDataBlocks == (0..MaxDataBlocks) \cup {TestBlockCt, BigDataBlocks}
ForeignName == <<78, 79, 84, 65, 70, 65, 84, 83>>
ForeignSig == "NOTAFATS"
ForeignStore(len) ==
    [exists |-> TRUE, len |-> len,
     sb |-> [SuperblockOf(ZeroDisk) EXCEPT !.sig = ForeignSig]]
\* block 0 of the one-block foreign file, read as a root-directory block
\* (its superblock fields say rootDirInd = 0)
ForeignRoot ==
    PutRootEntry(<<>>, 0, [ZeroEntry EXCEPT !.name = CopyName(@, ForeignName)])

NoCall == [op |-> "none", filename |-> <<>>, err |-> "nil", file |-> NoFile,
           blockInd |-> -1]

\* d = v, with what else of d the call sets
SetDisk(v, f, isNil) ==
    /\ sig' = v.sig
    /\ blockCt' = v.blockCt
    /\ rootDirInd' = v.rootDirInd
    /\ dataStartInd' = v.dataStartInd
    /\ dataBlockCt' = v.dataBlockCt
    /\ fatBlockCt' = v.fatBlockCt
    /\ fd' = f
    /\ openNil' = isNil
    /\ open' = <<>>

InitMount ==
    /\ sig = "" /\ blockCt = 0 /\ rootDirInd = 0 /\ dataStartInd = 0
    /\ dataBlockCt = 0 /\ fatBlockCt = 0
    /\ fd = NilFd /\ openNil = TRUE /\ open = <<>>
    /\ \/ store = NoStore /\ root = <<>>
       \/ store = ForeignStore(0) /\ root = <<>>
       \/ store = ForeignStore(BlockSize) /\ root = ForeignRoot
    /\ fat = <<>>
    /\ data = <<>>
    /\ written = <<>>
    /\ ret = NoCall
    /\ handles = <<>>
    /\ nCreate = 0
    /\ procs = Idle
    /\ crashed = FALSE

\* d, err = New(path, dataBlocks)
NewCall(path, dataBlocks) ==
    /\ ~crashed
    /\ IF Len(path) = 0
       THEN /\ SetDisk(ZeroDisk, NilFd, TRUE)
            /\ ret' = [op |-> "New", filename |-> path,
                       err |-> "InvalidFilenameError", file |-> NoFile,
                       blockInd |-> -1]
            /\ UNCHANGED <<store, fat, root, handles, data, written>>
       ELSE /\ SetDisk(initSuperblock(dataBlocks), RdWr, FALSE)
            /\ store' = NewStore(dataBlocks)
            /\ fat' = <<>>
            /\ root' = <<>>
            /\ data' = <<>>
            /\ written' = <<>>
            /\ handles' = <<>>
            /\ ret' = [op |-> "New", filename |-> path, err |-> "nil",
                       file |-> NoFile, blockInd |-> -1]
    /\ UNCHANGED <<nCreate, procs, crashed>>

\* Mount without its check of len(filename): os.Open("") fails
MountNoPathCheck(path, st) ==
    IF Len(path) = 0 \/ ~st.exists
    THEN [err |-> "PathError", disk |-> ZeroDisk, fd |-> NilFd]
    ELSE IF st.len < BlockSize
    THEN [err |-> "EOF", disk |-> ZeroDisk, fd |-> NilFd]
    ELSE [err |-> "nil", disk |-> readSuperblock(st.sb), fd |-> RdOnly]

\* what Mount(path) returns on the backing file st: the error, the Disk
\* fields, and the fd
Mount(path, st) ==
    IF Len(path) = 0
    THEN [err |-> "InvalidFilenameError", disk |-> ZeroDisk, fd |-> NilFd]
    ELSE IF ~st.exists
    THEN [err |-> "PathError", disk |-> ZeroDisk, fd |-> NilFd]
    ELSE IF st.len < BlockSize
    THEN [err |-> "EOF", disk |-> ZeroDisk, fd |-> NilFd]
    ELSE [err |-> "nil", disk |-> readSuperblock(st.sb), fd |-> RdOnly]

\* d, err = Mount(path): Disk{fd: fd} leaves d.open the nil map
MountCall(path) ==
    /\ ~crashed
    /\ LET m == Mount(path, store)
       IN  /\ SetDisk(m.disk, m.fd, TRUE)
           /\ ret' = [op |-> "Mount", filename |-> path, err |-> m.err,
                      file |-> NoFile, blockInd |-> -1]
    /\ UNCHANGED <<store, fat, root, data, written, handles, nCreate, procs,
                   crashed>>

MountCreate(filename) ==
    /\ ~crashed /\ fd # NilFd
    /\ nCreate < MaxMountCreates
    /\ CreateCall(filename)

MountOpen(filename) ==
    /\ ~crashed /\ fd # NilFd
    /\ Open(filename)

NextMount ==
    \/ \E path \in Paths, n \in MountDataBlocks : NewCall(path, n)
    \/ \E path \in Paths : MountCall(path)
    \/ \E f \in FileNames : MountCreate(f)
    \/ \E f \in FileNames : MountOpen(f)

SpecMount == InitMount /\ [][NextMount]_vars

\* ------------------------------------------------------------ vocabulary of the claims
\* a file name the volume accepts: not empty, at most 16 bytes
ValidName(f) == Len(f) >= 1 /\ Len(f) <= RootEntryFilenameSize
\* f as a directory entry stores it: null-padded to 16 bytes
PadName(f) ==
    [k \in 1..RootEntryFilenameSize |-> IF k <= Len(f) THEN f[k] ELSE 0]
\* the slots of the root directory that are not free
UsedSlots(rootBuff) == {s \in DOMAIN rootBuff : rootBuff[s].name[1] # 0}
\* directory slot s and FAT entry e, by index
RootSlot(rootBuff, s) == RootEntryAt(rootBuff, s * RootEntrySize)
FatEntry(fatBuff, e) == FatVal(fatBuff, e * FatEntrySize)
\* the root directory holds an entry named f
HasEntry(rootBuff, f) ==
    ValidName(f) /\ \E s \in UsedSlots(rootBuff) : rootBuff[s].name = PadName(f)
CreateErrors == {"FullDiskError", "RootDirFullError", "FileAlreadyExistsError"}
\* every Create so far was called with a valid name
ValidCalls ==
    /\ ret.op = "Create" => ValidName(ret.filename)
    /\ \A f \in DOMAIN handles : ValidName(f)
\* Every Create so far has succeeded with a valid name of its own: the
\* directory holds nCreate entries of pairwise distinct names.
AllCreatesDistinct ==
    /\ Cardinality(UsedSlots(root)) = nCreate
    /\ \A s, t \in UsedSlots(root) : s # t => root[s].name # root[t].name
    /\ \A f \in DOMAIN handles : ValidName(f)

\* ------------------------------------------------------------ Read and Write
\* The File type with its Read and Write is not among the sources; what
\* follows is the read/write engine as sections 4.3, 4.4 and 4.6 of the
\* specification describe it, working on the FAT region and the
\* root-directory block that Create and Open of disk.go leave, through the
\* handle they return.  It reads a handle's desc as the index of a
\* directory slot and a start-block field as the index of a FAT entry.
\*
\* A payload is known by a tag and a length: its byte k is the pair
\* (tag, k).  A data block that was written holds a chunk: its first n
\* bytes are the bytes from, from+1, ... of the payload tag; the rest of
\* the block, and every block never written, is zero.
Min(a, b) == IF a <= b THEN a ELSE b
Max(a, b) == IF a >= b THEN a ELSE b
NumBlocks(len) == (len + BlockSize - 1) \div BlockSize
ZeroChunk == [tag |-> 0, from |-> 0, n |-> 0]
DataAt(dataBuff, b) == IF b \in DOMAIN dataBuff THEN dataBuff[b] ELSE ZeroChunk
\* the j-th block of a payload, and a payload block by block
Chunk(payload, j) ==
    [tag |-> payload.tag, from |-> (j - 1) * BlockSize,
     n |-> Min(BlockSize, payload.len - (j - 1) * BlockSize)]
PayloadBytes(payload) ==
    [j \in 1..NumBlocks(payload.len) |-> Chunk(payload, j)]
\* the first c bytes of a block that holds chunk
Clip(chunk, c) == [chunk EXCEPT !.n = Min(@, c)]

\* followChain(volume, headIndex): the indices of the chain from entry e,
\* ending with the entry that holds 0xFFFF; not ok when it meets a free
\* entry or makes more than hops hops.
RECURSIVE followChain(_, _, _)
followChain(fatBuff, e, hops) ==
    IF hops <= 0 \/ FatEntry(fatBuff, e) = FatEntryUnused
    THEN [ok |-> FALSE, chain |-> <<>>]
    ELSE IF FatEntry(fatBuff, e) = FatEoc
    THEN [ok |-> TRUE, chain |-> <<e>>]
    ELSE LET r == followChain(fatBuff, FatEntry(fatBuff, e), hops - 1)
         IN  [ok |-> r.ok, chain |-> <<e>> \o r.chain]

\* the free-entry scan of allocateChainHead and extendChain: the index of
\* the first free entry among the dataBlocks entries, or -1
FirstFree(fatBuff, dataBlocks) ==
    IF \E k \in 0..(dataBlocks - 1) : FatEntry(fatBuff, k) = FatEntryUnused
    THEN CHOOSE k \in 0..(dataBlocks - 1) :
            /\ FatEntry(fatBuff, k) = FatEntryUnused
            /\ \A j \in 0..(k - 1) : FatEntry(fatBuff, j) # FatEntryUnused
    ELSE -1

\* extendChain(volume, tailIndex), called until the chain has need blocks
RECURSIVE extendChain(_, _, _, _)
extendChain(fatBuff, chain, need, dataBlocks) ==
    LET e == FirstFree(fatBuff, dataBlocks)
        tail == chain[Len(chain)]
    IN  IF Len(chain) >= need
        THEN [err |-> "nil", fat |-> fatBuff, chain |-> chain]
        ELSE IF e < 0
        THEN [err |-> "FullDiskError", fat |-> fatBuff, chain |-> chain]
        ELSE extendChain(
                 PutFatVal(PutFatVal(fatBuff, FatEntrySize * tail, e),
                           FatEntrySize * e, FatEoc),
                 chain \o <<e>>, need, dataBlocks)

\* updateSize(volume, entryIndex, newSize)
updateSize(rootBuff, entryIndex, newSize) ==
    PutRootEntry(rootBuff, entryIndex * RootEntrySize,
                 [RootSlot(rootBuff, entryIndex) EXCEPT !.size = newSize])

\* Write(payload) on a handle whose cursor is 0
FileWrite(fatBuff, rootBuff, dataBuff, dataBlocks, file, payload) ==
    LET c == followChain(fatBuff, RootSlot(rootBuff, file.desc).first, dataBlocks)
        need == NumBlocks(payload.len)
        x == extendChain(fatBuff, c.chain, need, dataBlocks)
        blocks == {x.chain[j] : j \in 1..need}
    IN  IF ~c.ok
        THEN [err |-> "CorruptionError", fat |-> fatBuff, root |-> rootBuff,
              data |-> dataBuff, file |-> file]
        ELSE IF x.err # "nil"
        THEN [err |-> x.err, fat |-> x.fat, root |-> rootBuff,
              data |-> dataBuff, file |-> file]
        ELSE [err |-> "nil",
              fat |-> x.fat,
              root |-> IF payload.len > file.size
                       THEN updateSize(rootBuff, file.desc, payload.len)
                       ELSE rootBuff,
              data |-> [b \in (DOMAIN dataBuff) \cup blocks |->
                          IF b \in blocks
                          THEN Chunk(payload,
                                   CHOOSE j \in 1..need : x.chain[j] = b)
                          ELSE dataBuff[b]],
              file |-> [file EXCEPT !.offset = payload.len,
                                    !.size = Max(@, payload.len)]]

\* Read(length) on a handle whose cursor is 0: the bytes, block by block
FileRead(fatBuff, rootBuff, dataBuff, dataBlocks, file, length) ==
    LET clamp == Min(length, Max(0, file.size))
        c == followChain(fatBuff, RootSlot(rootBuff, file.desc).first, dataBlocks)
        cnt == Min(NumBlocks(clamp), Len(c.chain))
    IN  IF clamp = 0
        THEN [err |-> "nil", bytes |-> <<>>]
        ELSE IF ~c.ok
        THEN [err |-> "CorruptionError", bytes |-> <<>>]
        ELSE [err |-> "nil",
              bytes |-> [j \in 1..cnt |->
                           Clip(DataAt(dataBuff, c.chain[j]),
                                Min(BlockSize, clamp - (j - 1) * BlockSize))]]

\* ------------------------------------------------------------ the read-write specification
\* One caller creates files of valid names on a volume of MaxRWCreates to
\* MaxRWBlocks data blocks, writes one payload through the handle a Create has just
\* returned, closes and opens files, and reads, through the handle an Open
\* has just returned, as many bytes as were written to that name.
RWNames == {NameA, Name16}
PayloadLens == {PayloadTail, PayloadBlocks * BlockSize + PayloadTail}

InitRW ==
    /\ \E n \in MaxRWCreates..MaxRWBlocks : New(n)
    /\ ret = NoRet
    /\ handles = <<>>
    /\ nCreate = 0
    /\ procs = Idle
    /\ crashed = FALSE

RWCreate(filename) ==
    /\ nCreate < MaxRWCreates
    /\ CreateCall(filename)

\* f.Write(payload) on the handle f that Create has just returned; the
\* payload written by the k-th Create's handle has tag k
RWWrite(len) ==
    /\ ret.op = "Create" /\ ret.err = "nil"
    /\ LET payload == [tag |-> nCreate, len |-> len]
           w == FileWrite(fat, root, data, dataBlockCt, ret.file, payload)
       IN  /\ fat' = w.fat
           /\ root' = w.root
           /\ data' = w.data
           /\ written' = IF w.err = "nil"
                         THEN [f \in (DOMAIN written) \cup {ret.filename} |->
                                 IF f = ret.filename THEN payload ELSE written[f]]
                         ELSE written
           /\ ret' = [op |-> "Write", filename |-> ret.filename, err |-> w.err,
                      file |-> w.file, blockInd |-> -1]
    /\ UNCHANGED <<layout, fd, openNil, store, open, handles, nCreate, procs,
                   crashed>>

\* f.Read(buf) on the handle f that Open has just returned, for a name that
\* was written, with a buffer as long as the payload
RWRead ==
    /\ ret.op = "Open" /\ ret.err = "nil"
    /\ ret.filename \in DOMAIN written
    /\ LET r == FileRead(fat, root, data, dataBlockCt, ret.file,
                         written[ret.filename].len)
       IN  ret' = [op |-> "Read", filename |-> ret.filename, err |-> r.err,
                   file |-> ret.file, blockInd |-> -1, bytes |-> r.bytes]
    /\ UNCHANGED <<layout, fd, openNil, store, data, written, open, fat, root,
                   handles, nCreate, procs, crashed>>

NextRW ==
    \/ \E f \in RWNames : RWCreate(f)
    \/ \E len \in PayloadLens : RWWrite(len)
    \/ \E f \in RWNames : Close(f)
    \/ \E f \in RWNames : Open(f)
    \/ RWRead

SpecRW == InitRW /\ [][NextRW]_vars

\* ------------------------------------------------------------ C1
\* C1: for a name f that has a directory entry, Open(f) fails with
\* FileAlreadyInUse (and registers nothing) while f is registered open, and
\* the Open(f) that follows a successful Close of f succeeds and leaves f
\* registered open.
C1_OpenInUseThenReopen ==
    [][(ret'.op = "Open" /\ HasEntry(root, ret'.filename)) =>
         /\ checkIsOpen(open, ret'.filename) =>
              (ret'.err = "FileAlreadyInUseError" /\ open' = open)
         /\ (ret.op = "Close" /\ ret.err = "nil" /\ ret.filename = ret'.filename) =>
              (ret'.err = "nil" /\ checkIsOpen(open', ret'.filename))]_vars

\* An Open has succeeded: the name was created (Create registers it open),
\* closed, and opened again.
C1_Witness ==
    /\ ret.op = "Open" /\ ret.err = "nil"
    /\ HasEntry(root, ret.filename)
    /\ ret.filename \in DOMAIN handles
    /\ checkIsOpen(open, ret.filename)

\* ------------------------------------------------------------ C2
\* C2: Create(f) of a valid name f that the root directory already holds
\* fails with FileAlreadyExists and leaves the root directory as it was.
C2_DuplicateCreateFails ==
    [][(ret'.op = "Create" /\ HasEntry(root, ret'.filename)) =>
         (ret'.err = "FileAlreadyExistsError" /\ root' = root)]_vars

\* ------------------------------------------------------------ C3
\* C3: no two non-free directory entries hold the same filename, and every
\* stored filename is at most 16 bytes.
C3_NamesUnique ==
    /\ \A s, t \in UsedSlots(root) : s # t => root[s].name # root[t].name
    /\ \A s \in UsedSlots(root) : Len(Trim(root[s].name)) <= RootEntryFilenameSize

\* ------------------------------------------------------------ C4
\* C4 (after Creates of pairwise distinct valid names that all succeeded):
\* the first-block field of every non-free directory entry is a FAT entry
\* index in [0, dataBlockCt).
C4_FirstBlockInRange ==
    AllCreatesDistinct =>
        \A s \in UsedSlots(root) :
            root[s].first >= 0 /\ root[s].first < dataBlockCt

\* ------------------------------------------------------------ C5
\* C5 (for Creates with valid names): on a fresh volume of n data blocks the
\* first n chain-head allocations succeed and the (n+1)-th fails with
\* FullDiskError.  Every Create makes exactly one allocation, so the
\* nCreate-th Create makes the nCreate-th allocation.
C5_FullDiskExactly ==
    (ret.op = "Create" /\ ValidCalls
        /\ \A s, t \in UsedSlots(root) : s # t => root[s].name # root[t].name) =>
        /\ nCreate <= dataBlockCt => ret.blockInd >= 0
        /\ nCreate = dataBlockCt + 1 => ret.err = "FullDiskError"

\* ------------------------------------------------------------ C6
\* C6: a Create that fails with FullDiskError, RootDirFullError or
\* FileAlreadyExistsError leaves the FAT region, the root-directory block
\* and the open-name registry as they were.
C6_FailedCreateNoChange ==
    [][(ret'.op = "Create" /\ ret'.err \in CreateErrors) =>
         (fat' = fat /\ root' = root /\ open' = open)]_vars

\* ------------------------------------------------------------ C8
\* C8 (after Creates of pairwise distinct valid names that all succeeded): a
\* successful Create(f) leaves f registered open and
\* returns a handle with name f, cursor 0, size 0 and desc the index of a
\* directory entry named f, of size 0, whose start-block field is the index
\* of a FAT entry holding 0xFFFF.
C8_CreateResult ==
    (ret.op = "Create" /\ ret.err = "nil" /\ AllCreatesDistinct) =>
        /\ checkIsOpen(open, ret.filename)
        /\ ret.file.name = ret.filename
        /\ ret.file.offset = 0
        /\ ret.file.size = 0
        /\ ret.file.desc \in 0..(NumRootEntries - 1)
        /\ RootSlot(root, ret.file.desc).name = PadName(ret.filename)
        /\ RootSlot(root, ret.file.desc).size = 0
        /\ RootSlot(root, ret.file.desc).first \in 0..(NumFatEntries(fatBlockCt) - 1)
        /\ FatEntry(fat, RootSlot(root, ret.file.desc).first) = FatEoc

\* ------------------------------------------------------------ C9
\* C9: Open(f) of a file made by Create(f) and closed since returns a handle
\* with the desc and the size of the handle Create returned, and cursor 0.
C9_OpenMatchesCreate ==
    (ret.op = "Open" /\ ret.err = "nil" /\ ret.filename \in DOMAIN handles
        /\ AllCreatesDistinct) =>
        /\ ret.file.desc = handles[ret.filename].desc
        /\ ret.file.size = handles[ret.filename].size
        /\ ret.file.offset = 0

\* ------------------------------------------------------------ C7
\* C7: on a volume with at least 129 data blocks, creating files of pairwise
\* distinct valid names, the 1st to the 128th Create succeed and the 129th
\* fails with RootDirFullError.
C7_RootDirFullAt129 ==
    (ret.op = "Create" /\ dataBlockCt >= 129 /\ ValidCalls) =>
        /\ nCreate <= 128 =>
             (ret.err = "nil" /\ Cardinality(UsedSlots(root)) = nCreate)
        /\ nCreate = 129 => ret.err = "RootDirFullError"

\* The 129th Create has failed with RootDirFullError on a directory whose
\* 128 slots hold the 128 names created before.
C7_Witness ==
    /\ ret.op = "Create" /\ nCreate = 129 /\ ret.err = "RootDirFullError"
    /\ dataBlockCt >= 129
    /\ Cardinality(UsedSlots(root)) = 128
    /\ \A k \in 1..128 : HasEntry(root, FillName(k))

\* ------------------------------------------------------------ C10
\* the goroutines whose Create has claimed a FAT entry / a directory slot
Allocated(p) == procs[p].blockInd >= 0
Entered(p) == procs[p].rootInd >= 0

\* C10: concurrent Create calls never claim the same free FAT entry for two
\* files and never write two files into the same directory slot.
C10_NoSharedEntry ==
    \A p, q \in DOMAIN procs :
        p # q =>
            /\ (Allocated(p) /\ Allocated(q)) =>
                   procs[p].blockInd # procs[q].blockInd
            /\ (Entered(p) /\ Entered(q)) =>
                   procs[p].rootInd # procs[q].rootInd

\* ------------------------------------------------------------ C11
\* C11: Mount(path) right after a successful New(path, n) succeeds and
\* returns a volume whose sig, blockCt, rootDirInd, dataStartInd,
\* dataBlockCt and fatBlockCt are those of the volume New returned.
C11_MountRoundTrip ==
    [][(/\ ret.op = "New" /\ ret.err = "nil"
        /\ ret'.op = "Mount" /\ ret'.filename = ret.filename) =>
         /\ ret'.err = "nil"
         /\ sig' = sig
         /\ blockCt' = blockCt
         /\ rootDirInd' = rootDirInd
         /\ dataStartInd' = dataStartInd
         /\ dataBlockCt' = dataBlockCt
         /\ fatBlockCt' = fatBlockCt]_vars

\* ------------------------------------------------------------ C12
\* C12: the volume a successful New(path, n) returns has dataBlockCt = n,
\* fatBlockCt = ceil(2n/4096), rootDirInd = 1 + fatBlockCt, dataStartInd =
\* 2 + fatBlockCt and blockCt = 2 + fatBlockCt + n; the backing file is
\* blockCt*4096 bytes long, and its FAT region and root-directory block
\* are all zero.
C12_NewLayout ==
    (ret.op = "New" /\ ret.err = "nil") =>
        /\ dataBlockCt \in MountDataBlocks
        /\ BlockSize * fatBlockCt >= 2 * dataBlockCt
        /\ BlockSize * (fatBlockCt - 1) < 2 * dataBlockCt
        /\ rootDirInd = 1 + fatBlockCt
        /\ dataStartInd = 2 + fatBlockCt
        /\ blockCt = 2 + fatBlockCt + dataBlockCt
        /\ store.exists /\ store.len = blockCt * BlockSize
        /\ store.sb.sig = SbSig
        /\ fat = <<>> /\ root = <<>>

\* New(path, 64) has returned the volume of the test: one FAT block, root
\* directory in block 2, data from block 3, 67 blocks, 274432 bytes.
C12_Witness ==
    /\ ret.op = "New" /\ ret.err = "nil" /\ ret.filename = TestPath
    /\ dataBlockCt = TestBlockCt
    /\ fatBlockCt = 1 /\ rootDirInd = 2 /\ dataStartInd = 3
    /\ blockCt = 3 + TestBlockCt
    /\ store.len = (3 + TestBlockCt) * BlockSize

\* ------------------------------------------------------------ C13
\* C13: Mount(path) of a backing file whose first 8 bytes are not the magic
\* "NEWFATFS" fails, and the Disk it returns is no volume (its fd is nil).
C13_MountBadSignatureFails ==
    (/\ ret.op = "Mount" /\ Len(ret.filename) > 0
     /\ store.exists /\ store.sb.sig # SbSig) =>
        (ret.err # "nil" /\ fd = NilFd)

\* ------------------------------------------------------------ C14
\* C14: on the volume a successful Mount has just returned no name is
\* registered open, and Open(f) of a name f that has a directory entry
\* then succeeds and leaves f registered open, without a crash.
C14_MountedRegistryUsable ==
    [][(ret.op = "Mount" /\ ret.err = "nil") =>
         /\ \A f \in FileNames : ~checkIsOpen(open, f)
         /\ (ret'.op = "Open" /\ HasEntry(root, ret'.filename)) =>
              /\ ret'.err = "nil"
              /\ checkIsOpen(open', ret'.filename)
              /\ ~crashed']_vars

\* ------------------------------------------------------------ C15
\* C15 (on a volume with at least one data block): Create(f) with f empty
\* or longer than 16 bytes fails with InvalidFilename, leaves the
\* root-directory block as it was and does not register f open.
C15_InvalidNameRefused ==
    [][(ret'.op = "Create" /\ ~ValidName(ret'.filename) /\ dataBlockCt >= 1) =>
         /\ ret'.err = "InvalidFilenameError"
         /\ root' = root
         /\ ~checkIsOpen(open', ret'.filename)]_vars

\* ------------------------------------------------------------ C16
\* a non-free slot of the root directory holds the name f
Listed(rootBuff, f) ==
    \E s \in UsedSlots(rootBuff) : Trim(rootBuff[s].name) = f

\* C16, as the code has it: Open(f) of a name f that is not registered open
\* and has no directory entry leaves the open-name registry as it was and
\* fails, with FileNotFound when f is not empty and with CustomError
\* ("Filename empty") when f is empty.
C16_OpenMissingFails ==
    [][(/\ ret'.op = "Open"
        /\ ~checkIsOpen(open, ret'.filename)
        /\ ~Listed(root, ret'.filename)) =>
         /\ open' = open
         /\ ret'.err = IF Len(ret'.filename) = 0 THEN "CustomError"
                       ELSE "FileNotFoundError"]_vars

\* Open of a name without an entry has failed with FileNotFound on a
\* volume whose directory holds another file.
C16_Witness ==
    /\ ret.op = "Open" /\ ret.err = "FileNotFoundError"
    /\ ~Listed(root, ret.filename)
    /\ ~checkIsOpen(open, ret.filename)
    /\ UsedSlots(root) # {}

\* C16 as stated: the error is FileNotFound for every such name.
C16_OpenMissingNotFound ==
    [][(/\ ret'.op = "Open"
        /\ ~checkIsOpen(open, ret'.filename)
        /\ ~Listed(root, ret'.filename)) =>
         /\ open' = open
         /\ ret'.err = "FileNotFoundError"]_vars

\* ------------------------------------------------------------ C17
\* C17: Close on a handle whose name is empty fails with MemberUndefined;
\* Close on a handle whose name is not registered open fails with
\* FileNotOpen; both leave the registry as it was.  Close on a handle whose
\* (non-empty) name is registered open succeeds and unregisters that name
\* and no other.  No Close changes the FAT region or the root directory.
C17_CloseUnregisters ==
    [][ret'.op = "Close" =>
         /\ fat' = fat /\ root' = root
         /\ IF Len(ret'.filename) = 0
            THEN ret'.err = "MemberUndefinedError" /\ open' = open
            ELSE IF ~checkIsOpen(open, ret'.filename)
            THEN ret'.err = "FileNotOpenError" /\ open' = open
            ELSE /\ ret'.err = "nil"
                 /\ ~checkIsOpen(open', ret'.filename)
                 /\ \A f \in FileNames \ {ret'.filename} :
                        checkIsOpen(open', f) = checkIsOpen(open, f)]_vars

\* A second Close of a file that Create made and a first Close closed has
\* failed with FileNotOpen.
C17_Witness ==
    /\ ret.op = "Close" /\ ret.err = "FileNotOpenError"
    /\ ret.filename \in DOMAIN handles
    /\ Len(ret.filename) > 0
    /\ ~checkIsOpen(open, ret.filename)

\* ------------------------------------------------------------ C18
\* C18: New and Mount called with the empty path fail with
\* InvalidFilenameError and return no volume, and the call leaves the
\* backing file as it was: New creates none.
C18_EmptyPathRefused ==
    [][(ret'.op \in {"New", "Mount"} /\ Len(ret'.filename) = 0) =>
         /\ ret'.err = "InvalidFilenameError"
         /\ fd' = NilFd
         /\ store' = store /\ fat' = fat /\ root' = root]_vars

\* New with the empty path has failed and no backing file exists.
C18_Witness ==
    /\ ret.op = "New" /\ Len(ret.filename) = 0
    /\ ret.err = "InvalidFilenameError"
    /\ ~store.exists
    /\ fd = NilFd

\* ------------------------------------------------------------ C20
\* C20 (for Creates of valid names that the directory does not hold, after
\* Creates of valid names): every Create whose initFatChain succeeds
\* returns from it the index e of the lowest FAT entry that held 0; after
\* the call entry e, the two bytes at byte position 2e, holds 0xFFFF and
\* every other FAT entry is as it was.
C20_FirstFit ==
    [][(/\ ret'.op = "Create" /\ ret'.blockInd >= 0
        /\ ValidCalls /\ ValidName(ret'.filename)
        /\ ~HasEntry(root, ret'.filename)) =>
         LET e == ret'.blockInd
         IN  /\ FatEntry(fat, e) = FatEntryUnused
             /\ \A j \in 0..(e - 1) : FatEntry(fat, j) # FatEntryUnused
             /\ FatEntry(fat', e) = FatEoc
             /\ \A j \in ((DOMAIN fat) \cup (DOMAIN fat')) \ {e} :
                    FatEntry(fat', j) = FatEntry(fat, j)]_vars

\* ------------------------------------------------------------ C19
\* C19 (after Creates of pairwise distinct valid names that all succeeded):
\* a Read through the handle of Open(f), after Create(f), Write(payload)
\* and Close(f), returns the bytes of the payload; the directory entry of
\* f then holds the payload's length as its size, and the chain from its
\* start block is as long as the payload needs.
C19_WriteReadRoundTrip ==
    (ret.op = "Read" /\ AllCreatesDistinct) =>
        LET payload == written[ret.filename]
        IN  /\ ret.err = "nil"
            /\ ret.bytes = PayloadBytes(payload)
            /\ \E s \in UsedSlots(root) :
                  /\ root[s].name = PadName(ret.filename)
                  /\ root[s].size = payload.len
                  /\ LET c == followChain(fat, root[s].first, dataBlockCt)
                     IN  c.ok /\ Len(c.chain) = Max(1, NumBlocks(payload.len))

\* ------------------------------------------------------------ C21
\* C21 (for Creates of valid names that the directory does not hold, after
\* Creates of valid names): every Create whose initRootEntry succeeds
\* returns from it the index s, in 0..127, of the first directory slot that
\* was free; after the call slot s, the 32 bytes at byte position 32s,
\* holds the file name null-padded, size 0 and the start block
\* initRootEntry was given, and every other slot is as it was.
C21_FirstFreeSlot ==
    [][(/\ ret'.op = "Create" /\ ret'.err = "nil"
        /\ ValidCalls /\ ValidName(ret'.filename)
        /\ ~HasEntry(root, ret'.filename)) =>
         LET s == ret'.file.desc
         IN  /\ s \in 0..(NumRootEntries - 1)
             /\ RootSlot(root, s).name[1] = 0
             /\ \A t \in 0..(s - 1) : RootSlot(root, t).name[1] # 0
             /\ RootSlot(root', s) = [name |-> PadName(ret'.filename), size |-> 0,
                                      first |-> ret'.blockInd]
             /\ \A t \in ((DOMAIN root) \cup (DOMAIN root')) \ {s} :
                    RootSlot(root', t) = RootSlot(root, t)]_vars

\* ------------------------------------------------------------ C22
\* the FAT entries that are not free
UsedFatEntries(fatBuff) == {e \in DOMAIN fatBuff : fatBuff[e] # FatEntryUnused}

\* C22 (after Creates of pairwise distinct valid names that all succeeded):
\* the start-block field of every directory entry that is not free is the
\* index of a FAT entry that is not free, no two such directory entries
\* have the same start block, and the FAT entries that are not free are as
\* many as the directory entries that are not free.
C22_FatDirConsistent ==
    AllCreatesDistinct =>
        /\ \A s \in UsedSlots(root) :
               FatEntry(fat, root[s].first) # FatEntryUnused
        /\ \A s, t \in UsedSlots(root) :
               s # t => root[s].first # root[t].first
        /\ Cardinality(UsedFatEntries(fat)) = Cardinality(UsedSlots(root))

\* ------------------------------------------------------------ C23
\* C23: every name registered open is the trimmed file name of a directory
\* entry that is not free; and Open(f) of a name f that Create made and
\* that is not registered open succeeds.
C23_OpenNamesListed ==
    /\ [](\A f \in DOMAIN open : open[f] => Listed(root, f))
    /\ [][(/\ ret'.op = "Open" /\ ret'.filename \in DOMAIN handles
           /\ ~checkIsOpen(open, ret'.filename)) =>
            ret'.err = "nil"]_vars

\* ------------------------------------------------------------ C24
\* C24: a call of Open, whatever it returns, leaves the backing file as it
\* was: its superblock and length, its FAT region, its root-directory
\* block and its data region.  A call of Create leaves the superblock and
\* the layout fields blockCt, rootDirInd, dataStartInd, dataBlockCt and
\* fatBlockCt of the Disk structure as they were: the blocks it writes, the
\* FAT region from block 1 and block rootDirInd, are not block 0.
C24_OpenCreateFrame ==
    [][/\ ret'.op = "Open" =>
            /\ store' = store
            /\ fat' = fat
            /\ root' = root
            /\ data' = data
       /\ ret'.op = "Create" =>
            /\ store' = store
            /\ rootDirInd >= 1
            /\ sig' = sig
            /\ blockCt' = blockCt
            /\ rootDirInd' = rootDirInd
            /\ dataStartInd' = dataStartInd
            /\ dataBlockCt' = dataBlockCt
            /\ fatBlockCt' = fatBlockCt]_vars

\* Open has failed for a missing name and left a volume on which two
\* Creates have written: the FAT region and the root directory hold
\* entries, and the superblock and the Disk structure are those of New.
C24_Witness ==
    /\ ret.op = "Open" /\ ret.err = "FileNotFoundError"
    /\ nCreate >= 2
    /\ Cardinality(UsedSlots(root)) >= 2
    /\ Cardinality(UsedFatEntries(fat)) >= 2
    /\ store = NewStore(dataBlockCt)
    /\ blockCt = NumTotalBlks(dataBlockCt)
    /\ rootDirInd = 1 + fatBlockCt

====
